---------------------------- MODULE Spec2Model ----------------------------
(***************************************************************************)
(* supershell: the quest/objective state machine.                          *)
(*                                                                         *)
(* Two programs live in the repository.  The "sequential" one              *)
(* (src/src/supershell: game_loop, quest_manager, objective_checker)       *)
(* keeps an ordered catalog of quests with ordered objectives.  The        *)
(* "gated" one (src/supershell: main, agent, quest, auditors) runs one     *)
(* quest made of prerequisite and completion checks.  A behaviour of the   *)
(* model is one run of one of the two programs, or one call of an audit    *)
(* function of auditors.py on its own; `program` says which.               *)
(***************************************************************************)
EXTENDS Integers, Sequences, FiniteSets, TLC

(***************************************************************************)
(* Bounds of the model.                                                    *)
(***************************************************************************)
MaxFiles == 2        \* quest files in assets/quests
MaxObjectives == 2   \* objectives listed in one quest file
MaxSaid == 2         \* times one success message is counted before the run is cut
MaxGatedQuests == 2  \* quests listed in config/quests.json
MaxPrerequisites == 1 \* prerequisite checks of one gated quest
MaxChecks == 2       \* completion checks of one gated quest

(***************************************************************************)
(* Python values.                                                          *)
(***************************************************************************)
None == "<None>"

\* Python truth value of an Optional[str]: None and "" are false.
Truthy(x) == x # None /\ x # ""

SeqsUpTo(S, n) == UNION {[1..k -> S] : k \in 0..n}

(***************************************************************************)
(* Quest files (the input of load_quests).                                 *)
(***************************************************************************)
QuestIds == {"", "qa", "qb"}
ObjectiveIds == {"o1", "o2"}
VaultPath == "~/vault"

NoCriteria == [command |-> None, path |-> None, type |-> None]

\* the (type, criteria) pairs a quest file may give an objective
ObjectiveKinds ==
    { [type |-> "command_run", criteria |-> [NoCriteria EXCEPT !.command = "ls"]],
      [type |-> "path_exists",
       criteria |-> [NoCriteria EXCEPT !.path = VaultPath, !.type = "dir"]],
      [type |-> "network_state", criteria |-> NoCriteria] }

ObjectiveData ==
    { [id |-> i, type |-> k.type, criteria |-> k.criteria] :
          i \in ObjectiveIds, k \in ObjectiveKinds }

\* A file that yaml.safe_load or Quest.from_dict rejects.
BadFile == [parses |-> FALSE, id |-> None, objectives |-> << >>]

\* Objective ids are only ever compared with each other, inside one quest
\* (mark_objective_complete), so the first objective of a quest is "o1".
ObjectiveLists ==
    { os \in SeqsUpTo(ObjectiveData, MaxObjectives) :
          os # << >> => os[1].id = "o1" }

QuestData ==
    { [parses |-> TRUE, id |-> i, objectives |-> os] :
          i \in QuestIds, os \in ObjectiveLists }

QuestFiles == QuestData \cup {BadFile}

\* `criteria:` with no value in the file: data.get('criteria', {}) is None,
\* and every criteria.get(...) of a predicate raises AttributeError
Raises == "<raises>"
NullCriteria == [command |-> Raises, path |-> Raises, type |-> Raises]

RaisingKinds ==
    { [type |-> "command_run", criteria |-> NullCriteria],
      [type |-> "path_exists", criteria |-> NullCriteria] }

\* assets/quests: whether it exists and sorted(quest_dir.glob("*.yml"))
NoDirectory == [exists |-> FALSE, files |-> << >>]
Directories ==
    { [exists |-> TRUE, files |-> fl] : fl \in SeqsUpTo(QuestFiles, MaxFiles) }
        \cup {NoDirectory}

\* Well-formed catalogs: every file parses, the quests have distinct truthy
\* ids and the objectives of a quest distinct ids; an objective may be of
\* any kind, those whose predicate raises included.
QuestIdAt(k) == IF k = 1 THEN "qa" ELSE "qb"
ObjectiveIdAt(j) == IF j = 1 THEN "o1" ELSE "o2"

WellFormedObjectiveLists ==
    { [j \in DOMAIN ks |->
          [id |-> ObjectiveIdAt(j), type |-> ks[j].type,
           criteria |-> ks[j].criteria]] :
          ks \in SeqsUpTo(ObjectiveKinds \cup RaisingKinds, MaxObjectives) }

WellFormedDirectories ==
    { [exists |-> TRUE,
       files |-> [k \in DOMAIN ol |->
                     [parses |-> TRUE, id |-> QuestIdAt(k), objectives |-> ol[k]]]] :
          ol \in SeqsUpTo(WellFormedObjectiveLists, MaxFiles) }

(***************************************************************************)
(* Commands: a command line is its sequence of whitespace-delimited        *)
(* tokens.                                                                 *)
(***************************************************************************)
\* str.lower() on the token alphabet
Lower(t) == CASE t = "LS" -> "ls"
              [] t = "HELP" -> "help"
              [] t = "QUIT" -> "quit"
              [] OTHER -> t

\* what the player may type at the prompt, besides an empty line and "exit"
Commands == { <<"LS", "-la">>, <<"cat", "ls">>, <<"mkdir", VaultPath>>,
              <<"quest">>, <<"HELP">> }

GAME_COMMANDS == {"help", "quest", "log", "cypher", "scan"}

\* what lives at ~/vault
FsStates == {"absent", "dir", "file"}

MaxTokens == 2       \* tokens of a command line of TokenCommands

\* command lines over a token alphabet, and the commands that create and
\* remove ~/vault
Tokens == {"ls", "LS", "cat", "-la"}
TokenCommands ==
    (SeqsUpTo(Tokens, MaxTokens) \ {<< >>})
        \cup { <<"mkdir", VaultPath>>, <<"touch", VaultPath>>,
               <<"rm", "-r", VaultPath>> }

\* the spellings a quest file may use for the kind of path, and the verbs
PredicateKinds ==
    { [type |-> "command_run", criteria |-> [NoCriteria EXCEPT !.command = v]] :
          v \in {"ls", "LS", "cat"} }
    \cup
    { [type |-> "path_exists",
       criteria |-> [NoCriteria EXCEPT !.path = VaultPath, !.type = t]] :
          t \in {"dir", "file", "directory"} }

\* one quest file "qa" with objectives of these kinds
PredicateDirectories ==
    { [exists |-> TRUE,
       files |-> << [parses |-> TRUE, id |-> QuestIdAt(1),
                     objectives |-> [j \in DOMAIN ks |->
                         [id |-> ObjectiveIdAt(j), type |-> ks[j].type,
                          criteria |-> ks[j].criteria]]] >>] :
          ks \in SeqsUpTo(PredicateKinds, MaxObjectives) }

(***************************************************************************)
(* config/quests.json (the input of initialize_game).                      *)
(***************************************************************************)
AUDIT_FUNCTIONS == {"check_permissions", "check_owner_user", "check_network_route"}

StartQuestId == "L3Q1_SECURE_LOGS"
GatedQuestIds == {StartQuestId, "L3Q2"}

\* a check of the file: the audit function it names and the value it expects
CheckData ==
    { [function |-> "check_permissions", expected |-> "True"],
      [function |-> "check_owner_user", expected |-> "False"],
      [function |-> "audit_uptime", expected |-> "True"] }

GatedQuestData ==
    { [quest_id |-> i, prerequisite_checks |-> p, completion_checks |-> c] :
          i \in GatedQuestIds,
          p \in SeqsUpTo(CheckData, MaxPrerequisites),
          c \in SeqsUpTo(CheckData, MaxChecks) }

\* whether json.load succeeds, and the "quests" list
NoConfig == [readable |-> FALSE, quests |-> << >>]
Configs ==
    { [readable |-> TRUE, quests |-> qs] :
          qs \in SeqsUpTo(GatedQuestData, MaxGatedQuests) } \cup {NoConfig}

\* what an audit function gives when it is called on the live system
Observed == {"True", "False", "raises"}

\* what the player may type at the gated prompt
GatedInputs == { << >>, <<"QUIT">>, <<"chmod", "600">> }

(***************************************************************************)
(* supershell/auditors.py: the audit functions, called on their own.       *)
(* Text is a sequence of characters.                                       *)
(***************************************************************************)
MaxRoutes == 2       \* entries of the routing table

\* s[-k:]
LastChars(s, k) == SubSeq(s, IF Len(s) > k THEN Len(s) - k + 1 ELSE 1, Len(s))

\* needle in text
IsInfix(needle, text) ==
    \E i \in 1..(Len(text) - Len(needle) + 1) :
        SubSeq(text, i, i + Len(needle) - 1) = needle

Digit(d) == <<"0", "1", "2", "3", "4", "5", "6", "7">>[d + 1]

RECURSIVE OctDigits(_)
OctDigits(n) ==
    IF n < 8 THEN <<Digit(n)>> ELSE OctDigits(n \div 8) \o <<Digit(n % 8)>>

\* Python's oct(): "0o" and the octal digits, without leading zeros
oct(n) == <<"0", "o">> \o OctDigits(n)

\* stat.S_IMODE: the twelve permission bits of st_mode
S_IMODE(mode) == mode % 4096

\* what os.stat(filepath) answers: a stat result or an exception
StatOf(mode, uid) == [error |-> None, st_mode |-> mode, st_uid |-> uid]
StatFails(e) == [error |-> e, st_mode |-> 0, st_uid |-> 0]

\* st_mode of a regular file (S_IFREG) with every setting of the twelve bits
FileModes == {32768 + p : p \in 0..4095}

\* the expected_octal of a check: three octal digits
ExpectedOctals == [1..3 -> {"0", "4", "7"}]

check_permissions(st, expected_octal) ==
    IF st.error = "FileNotFoundError" THEN "False"
    ELSE IF st.error # None THEN "False"
    ELSE LET permissions == S_IMODE(st.st_mode)
             octal_perm == LastChars(oct(permissions), 4)
         IN  IF LastChars(octal_perm, 3) = expected_octal THEN "True"
             ELSE "False"

\* the account database: pwd.getpwuid(uid).pw_name, or KeyError
Uids == {0, 1000, 4242}
Owners == {"root", "alice"}
getpwuid(uid) == IF uid = 0 THEN "root"
                 ELSE IF uid = 1000 THEN "alice"
                 ELSE "KeyError"

check_owner_user(st, expected_owner_name) ==
    IF st.error = "FileNotFoundError" THEN "False"
    ELSE IF st.error # None THEN "raises"
    ELSE LET owner_name == getpwuid(st.st_uid)
         IN  IF owner_name = "KeyError" THEN "False"
             ELSE IF owner_name = expected_owner_name THEN "True"
             ELSE "False"

\* addresses and interfaces of the routing table; "10.1" is a prefix of "10.12"
Addresses == { <<"1", "0", ".", "1">>, <<"1", "0", ".", "1", "2">> }
Interfaces == { <<"e", "t", "h", "0">>, <<"e", "t", "h", "1">> }

RouteEntries == { [to |-> a, dev |-> i] : a \in Addresses, i \in Interfaces }
RoutingTables == SeqsUpTo(RouteEntries, MaxRoutes)

\* the output of `ip route show`: one line "<to> dev <interface>" per entry
RECURSIVE RouteText(_)
RouteText(table) ==
    IF table = << >> THEN << >>
    ELSE table[1].to \o <<" ", "d", "e", "v", " ">> \o table[1].dev \o <<"\n">>
             \o RouteText(Tail(table))

\* what subprocess.run(['ip', 'route', 'show'], check=True) answers
ToolRuns(table) == [error |-> None, stdout |-> RouteText(table)]
ToolFails(e) == [error |-> e, stdout |-> << >>]

check_network_route(run, target_ip, required_interface) ==
    IF run.error = "CalledProcessError" THEN "False"
    ELSE IF run.error # None THEN "raises"
    ELSE IF /\ IsInfix(target_ip, run.stdout)
            /\ IsInfix(<<"d", "e", "v", " ">> \o required_interface, run.stdout)
         THEN "True"
         ELSE "False"

NoCall == [function |-> None]

VARIABLES
    program,            \* "sequential" or "gated": which program runs
    pc,                 \* position of the running program
    directory,          \* assets/quests as found at startup
    config,             \* config/quests.json as found at startup
    evaluated,          \* the checks the gated quest evaluated during the last step
    quests,             \* quest_manager._quests, in insertion order
    current_quest_id,   \* quest_manager._current_quest_id
    fs,                 \* what is at ~/vault
    turn,               \* the input the last turn read and the exit status of its execution
    out,                \* messages printed for the player during the last step
    said,               \* said[i][j]: times objective j of quest i had its success message printed
    call,               \* an audit function called on its own: its arguments and what the system answers
    retval              \* what that call returned (or that it raised)

vars == <<program, pc, directory, config, evaluated, quests, current_quest_id,
          fs, turn, out, said, call, retval>>

(***************************************************************************)
(* models.py                                                               *)
(***************************************************************************)
Objective_from_dict(data) ==
    [id |-> data.id, type |-> data.type, criteria |-> data.criteria,
     completed |-> FALSE]

Quest_from_dict(data) ==
    [id |-> data.id,
     objectives |-> [j \in 1..Len(data.objectives) |->
                        Objective_from_dict(data.objectives[j])],
     completed |-> FALSE]

(***************************************************************************)
(* quest_manager.py                                                        *)
(***************************************************************************)
\* index of key k in the ordered dict qs, 0 when absent
KeyIndex(qs, k) ==
    IF \E i \in 1..Len(qs) : qs[i].id = k
    THEN CHOOSE i \in 1..Len(qs) : qs[i].id = k
    ELSE 0

\* _quests[quest.id] = quest : an existing key keeps its position
DictSet(qs, q) ==
    IF KeyIndex(qs, q.id) # 0
    THEN [qs EXCEPT ![KeyIndex(qs, q.id)] = q]
    ELSE Append(qs, q)

RECURSIVE LoadFiles(_, _)
LoadFiles(files, qs) ==
    IF files = << >> THEN qs
    ELSE LET f == Head(files)
         IN  LoadFiles(Tail(files),
                       IF f.parses THEN DictSet(qs, Quest_from_dict(f)) ELSE qs)

\* the pair (_quests, _current_quest_id) load_quests leaves behind
load_quests(dir) ==
    IF ~dir.exists
    THEN [quests |-> << >>, current |-> None]
    ELSE LET qs == LoadFiles(dir.files, << >>)
         IN  [quests |-> qs,
              current |-> IF qs # << >> THEN qs[1].id ELSE None]

\* index of the active quest in qs, 0 for Python's None
get_current_quest(qs, cur) ==
    IF Truthy(cur) THEN KeyIndex(qs, cur) ELSE 0

\* Faulty variant of get_active_objective: the scan keeps the last
\* uncompleted objective instead of returning the first.
get_active_objective_last(qs, cur) ==
    LET q == get_current_quest(qs, cur)
    IN  IF q = 0 THEN 0
        ELSE LET os == qs[q].objectives
                 open == {j \in 1..Len(os) : ~os[j].completed}
             IN  IF open = {} THEN 0
                 ELSE CHOOSE j \in open : \A k \in open : k <= j

\* index of the active objective in the active quest, 0 for Python's None
get_active_objective(qs, cur) ==
    LET q == get_current_quest(qs, cur)
    IN  IF q = 0 THEN 0
        ELSE LET os == qs[q].objectives
                 open == {j \in 1..Len(os) : ~os[j].completed}
             IN  IF open = {} THEN 0
                 ELSE CHOOSE j \in open : \A k \in open : j <= k

\* Faulty variant of mark_objective_complete: the flag is flipped instead
\* of set.
mark_objective_complete_flip(qs, cur, objective_id) ==
    LET q == get_current_quest(qs, cur)
    IN  IF q = 0 THEN qs
        ELSE LET os == qs[q].objectives
                 hits == {j \in 1..Len(os) : os[j].id = objective_id}
             IN  IF hits = {} THEN qs
                 ELSE LET j == CHOOSE j \in hits : \A k \in hits : j <= k
                      IN  [qs EXCEPT ![q].objectives[j].completed = ~@]

mark_objective_complete(qs, cur, objective_id) ==
    LET q == get_current_quest(qs, cur)
    IN  IF q = 0 THEN qs
        ELSE LET os == qs[q].objectives
                 hits == {j \in 1..Len(os) : os[j].id = objective_id}
             IN  IF hits = {} THEN qs
                 ELSE LET j == CHOOSE j \in hits : \A k \in hits : j <= k
                      IN  [qs EXCEPT ![q].objectives[j].completed = TRUE]

\* messages of cypher.say
TransitionMsg(from, to) == [kind |-> "transition", quest |-> from, objective |-> to]
StableMsg == [kind |-> "stable", quest |-> 0, objective |-> 0]
SuccessMsg(q, j) == [kind |-> "success", quest |-> q, objective |-> j]
MetaMsg == [kind |-> "meta", quest |-> 0, objective |-> 0]
MetaErrorMsg == [kind |-> "meta_error", quest |-> 0, objective |-> 0]
WelcomeMsg == [kind |-> "welcome", quest |-> 0, objective |-> 0]
MissionMsg(q) == [kind |-> "mission", quest |-> q, objective |-> 0]

\* Faulty variant of advance_quest: after the last quest the catalog
\* starts over with the first one.
advance_quest_wrap(qs, cur) ==
    LET q == get_current_quest(qs, cur)
    IN  IF q = 0
        THEN [quests |-> qs, current |-> cur, out |-> << >>, raised |-> FALSE]
        ELSE LET done == [qs EXCEPT ![q].completed = TRUE]
                 next == qs[(q % Len(qs)) + 1].id
             IN  IF get_current_quest(done, next) = 0
                 THEN [quests |-> done, current |-> next,
                       out |-> << >>, raised |-> TRUE]
                 ELSE [quests |-> done, current |-> next,
                       out |-> <<TransitionMsg(q, (q % Len(qs)) + 1)>>,
                       raised |-> FALSE]

\* Faulty variant of advance_quest: the quest that is left is not marked
\* completed.
advance_quest_unmarked(qs, cur) ==
    LET q == get_current_quest(qs, cur)
    IN  IF q = 0
        THEN [quests |-> qs, current |-> cur, out |-> << >>, raised |-> FALSE]
        ELSE IF q + 1 <= Len(qs)
             THEN [quests |-> qs, current |-> qs[q + 1].id,
                   out |-> <<TransitionMsg(q, q + 1)>>, raised |-> FALSE]
             ELSE [quests |-> qs, current |-> None,
                   out |-> <<StableMsg>>, raised |-> FALSE]

\* advance_quest: the state it leaves, what it printed, and whether
\* new_quest.title raised (get_current_quest gave None for the new id)
advance_quest(qs, cur) ==
    LET q == get_current_quest(qs, cur)
    IN  IF q = 0
        THEN [quests |-> qs, current |-> cur, out |-> << >>, raised |-> FALSE]
        ELSE LET done == [qs EXCEPT ![q].completed = TRUE]
             IN  IF q + 1 <= Len(qs)
                 THEN LET next == qs[q + 1].id
                      IN  IF get_current_quest(done, next) = 0
                          THEN [quests |-> done, current |-> next,
                                out |-> << >>, raised |-> TRUE]
                          ELSE [quests |-> done, current |-> next,
                                out |-> <<TransitionMsg(q, q + 1)>>,
                                raised |-> FALSE]
                 ELSE [quests |-> done, current |-> None,
                       out |-> <<StableMsg>>, raised |-> FALSE]

\* get_quest_display: the panel of the 'quest' command, as the active quest
\* (0: "No active quest.") and the Done marks of its objectives
get_quest_display(qs, cur) ==
    LET q == get_current_quest(qs, cur)
    IN  IF q = 0 THEN [quest |-> 0, done |-> << >>]
        ELSE [quest |-> q,
              done |-> [j \in 1..Len(qs[q].objectives) |->
                           qs[q].objectives[j].completed]]

\* get_contextual_hint: the objective whose hint is given, 0 for the stock
\* answer "I don't have a specific hint right now."
get_contextual_hint(qs, cur) == get_active_objective(qs, cur)

\* everything the functions of quest_manager tell a caller about its state
CallerView(qs, cur) ==
    [get_current_quest |-> get_current_quest(qs, cur),
     get_active_objective |-> get_active_objective(qs, cur),
     get_quest_display |-> get_quest_display(qs, cur),
     get_contextual_hint |-> get_contextual_hint(qs, cur)]

(***************************************************************************)
(* objective_checker.py                                                    *)
(***************************************************************************)
\* Faulty variant of _check_command_run: the verb is not lower-cased.
_check_command_run_exact(obj, command) ==
    command[1] = obj.criteria.command

_check_command_run(obj, command) ==
    Lower(command[1]) = obj.criteria.command

\* Faulty variant of _check_path_exists: whatever is at the path counts.
_check_path_exists_any(obj, fsNow) ==
    IF obj.criteria.path = None THEN FALSE
    ELSE IF obj.criteria.type = "dir" THEN fsNow # "absent"
    ELSE IF obj.criteria.type = "file" THEN fsNow # "absent"
    ELSE FALSE

_check_path_exists(obj, fsNow) ==
    IF obj.criteria.path = None THEN FALSE
    ELSE IF obj.criteria.type = "dir" THEN fsNow = "dir"
    ELSE IF obj.criteria.type = "file" THEN fsNow = "file"
    ELSE FALSE

\* the predicate of the objective raises (criteria is None)
_check_raises(obj) ==
    obj.type \in {"command_run", "path_exists"} /\ obj.criteria = NullCriteria

is_complete(obj, command, fsNow) ==
    IF obj.type = "command_run" THEN _check_command_run(obj, command)
    ELSE IF obj.type = "path_exists" THEN _check_path_exists(obj, fsNow)
    ELSE FALSE

\* Faulty variant of _handle_objective_success: after the advancement the
\* first objective of the newly activated quest is completed as well.
_handle_objective_success_cascade(qs, cur, j) ==
    LET q == get_current_quest(qs, cur)
        marked == mark_objective_complete(qs, cur, qs[q].objectives[j].id)
    IN  IF get_active_objective(marked, cur) = 0
        THEN LET adv == advance_quest(marked, cur)
                 n == get_active_objective(adv.quests, adv.current)
                 nq == get_current_quest(adv.quests, adv.current)
             IN  [quests |-> IF n = 0 THEN adv.quests
                             ELSE mark_objective_complete(
                                      adv.quests, adv.current,
                                      adv.quests[nq].objectives[n].id),
                  current |-> adv.current,
                  out |-> <<SuccessMsg(q, j)>> \o adv.out,
                  spoke |-> <<q, j>>, escapes |-> FALSE]
        ELSE [quests |-> marked, current |-> cur,
              out |-> <<SuccessMsg(q, j)>>, spoke |-> <<q, j>>,
              escapes |-> FALSE]

_handle_objective_success(qs, cur, j) ==
    LET q == get_current_quest(qs, cur)
        marked == mark_objective_complete(qs, cur, qs[q].objectives[j].id)
    IN  IF get_active_objective(marked, cur) = 0
        THEN LET adv == advance_quest(marked, cur)
             IN  [quests |-> adv.quests, current |-> adv.current,
                  out |-> <<SuccessMsg(q, j)>> \o adv.out,
                  spoke |-> <<q, j>>, escapes |-> FALSE]
        ELSE [quests |-> marked, current |-> cur,
              out |-> <<SuccessMsg(q, j)>>, spoke |-> <<q, j>>,
              escapes |-> FALSE]

\* check returns (or its `except Exception` logged an error) with nothing
\* changed; escapes: an exception leaves check
Unchanged(qs, cur) ==
    [quests |-> qs, current |-> cur, out |-> << >>, spoke |-> << >>,
     escapes |-> FALSE]

\* Faulty variant of check: the exit status of the command is not looked at.
check_any_status(qs, cur, command, return_code, fsNow) ==
    LET j == get_active_objective(qs, cur)
    IN  IF j = 0 THEN Unchanged(qs, cur)
        ELSE LET obj == qs[get_current_quest(qs, cur)].objectives[j]
             IN  IF _check_raises(obj) THEN Unchanged(qs, cur)
                 ELSE IF is_complete(obj, command, fsNow)
                 THEN _handle_objective_success(qs, cur, j)
                 ELSE Unchanged(qs, cur)

\* Faulty variant of check: without the try/except around the predicate.
check_uncaught(qs, cur, command, return_code, fsNow) ==
    LET j == get_active_objective(qs, cur)
    IN  IF j = 0 THEN Unchanged(qs, cur)
        ELSE IF return_code # 0 THEN Unchanged(qs, cur)
        ELSE LET obj == qs[get_current_quest(qs, cur)].objectives[j]
             IN  IF _check_raises(obj)
                 THEN [Unchanged(qs, cur) EXCEPT !.escapes = TRUE]
                 ELSE IF is_complete(obj, command, fsNow)
                 THEN _handle_objective_success(qs, cur, j)
                 ELSE Unchanged(qs, cur)

\* Faulty variant of check: every uncompleted objective of the active quest
\* is evaluated, and the first one the command satisfies is completed.
check_any_objective(qs, cur, command, return_code, fsNow) ==
    LET j == get_active_objective(qs, cur)
    IN  IF j = 0 THEN Unchanged(qs, cur)
        ELSE IF return_code # 0 THEN Unchanged(qs, cur)
        ELSE LET objs == qs[get_current_quest(qs, cur)].objectives
                 hits == {k \in 1..Len(objs) :
                             /\ ~objs[k].completed
                             /\ ~_check_raises(objs[k])
                             /\ is_complete(objs[k], command, fsNow)}
             IN  IF hits = {} THEN Unchanged(qs, cur)
                 ELSE _handle_objective_success(
                          qs, cur, CHOOSE k \in hits : \A m \in hits : k <= m)

\* check(command_result) with the filesystem as the command left it
check(qs, cur, command, return_code, fsNow) ==
    LET j == get_active_objective(qs, cur)
    IN  IF j = 0 THEN Unchanged(qs, cur)
        ELSE IF return_code # 0 THEN Unchanged(qs, cur)
        ELSE LET obj == qs[get_current_quest(qs, cur)].objectives[j]
             IN  IF _check_raises(obj) THEN Unchanged(qs, cur)
                 ELSE IF is_complete(obj, command, fsNow)
                 THEN _handle_objective_success(qs, cur, j)
                 ELSE Unchanged(qs, cur)

(***************************************************************************)
(* shell/executor.py: bash runs the command.  Of the commands of the       *)
(* model mkdir, touch and rm change what is at ~/vault: mkdir fails when   *)
(* something is there already and rm when nothing is; the other commands   *)
(* may succeed or fail.                                                    *)
(***************************************************************************)
execute_command(command, fsNow) ==
    IF command[1] = "mkdir"
    THEN IF fsNow = "absent"
         THEN {[return_code |-> 0, fs |-> "dir"]}
         ELSE {[return_code |-> 1, fs |-> fsNow]}
    ELSE IF command[1] = "touch"
    THEN {[return_code |-> 0, fs |-> IF fsNow = "absent" THEN "file" ELSE fsNow]}
    ELSE IF command[1] = "rm"
    THEN IF fsNow = "absent"
         THEN {[return_code |-> 1, fs |-> fsNow]}
         ELSE {[return_code |-> 0, fs |-> "absent"]}
    ELSE {[return_code |-> rc, fs |-> fsNow] : rc \in {0, 1}}

(***************************************************************************)
(* shell/parser.py                                                         *)
(***************************************************************************)
\* Faulty variant of parse_and_handle: the first word is not lower-cased.
parse_and_handle_exact(command) == command[1] \in GAME_COMMANDS

parse_and_handle(command) == Lower(command[1]) \in GAME_COMMANDS

(***************************************************************************)
(* core/game_loop.py                                                       *)
(***************************************************************************)
\* a turn of the loop: the line read, whether it went to bash, and bash's
\* exit status (0 when the line was not executed)
TurnOf(kind, input, rc) == [kind |-> kind, input |-> input, return_code |-> rc]
NoTurn == TurnOf("none", << >>, 0)

NoSaid(qs) == [i \in 1..Len(qs) |-> [j \in 1..Len(qs[i].objectives) |-> 0]]

InitSequential ==
    /\ program = "sequential"
    /\ pc = "start"
    /\ directory \in Directories
    /\ config = NoConfig
    /\ evaluated = << >>
    /\ quests = << >>
    /\ current_quest_id = None
    /\ fs = "absent"
    /\ turn = NoTurn
    /\ out = << >>
    /\ said = << >>
    /\ call = NoCall
    /\ retval = None

\* a run of the sequential program on a well-formed catalog
InitWellFormed ==
    /\ program = "sequential"
    /\ pc = "start"
    /\ directory \in WellFormedDirectories
    /\ config = NoConfig
    /\ evaluated = << >>
    /\ quests = << >>
    /\ current_quest_id = None
    /\ fs = "absent"
    /\ turn = NoTurn
    /\ out = << >>
    /\ said = << >>
    /\ call = NoCall
    /\ retval = None

\* main_loop up to the first prompt
Startup ==
    /\ program = "sequential"
    /\ pc = "start"
    /\ LET l == load_quests(directory)
       IN  /\ quests' = l.quests
           /\ current_quest_id' = l.current
           /\ said' = NoSaid(l.quests)
           /\ out' = LET first == get_current_quest(l.quests, l.current)
                     IN  IF first # 0 THEN <<WelcomeMsg, MissionMsg(first)>>
                         ELSE <<WelcomeMsg>>
    /\ pc' = "prompt"
    /\ UNCHANGED <<call, retval, program, directory, config, evaluated, fs, turn>>

\* one turn: an empty line (or Ctrl-C)
TurnEmpty ==
    /\ program = "sequential"
    /\ pc = "prompt"
    /\ turn' = TurnOf("empty", << >>, 0)
    /\ out' = << >>
    /\ UNCHANGED <<call, retval, program, pc, directory, config, evaluated, quests,
                   current_quest_id, fs, said>>

\* one turn: "exit" (or Ctrl-D)
TurnExit ==
    /\ program = "sequential"
    /\ pc = "prompt"
    /\ pc' = "exited"
    /\ turn' = TurnOf("exit", <<"exit">>, 0)
    /\ out' = << >>
    /\ UNCHANGED <<call, retval, program, directory, config, evaluated, quests,
                   current_quest_id, fs, said>>

\* one turn: a game command, handled by the router
TurnMeta ==
    /\ program = "sequential"
    /\ pc = "prompt"
    /\ \E command \in Commands :
          /\ parse_and_handle(command)
          /\ turn' = TurnOf("meta", command, 0)
          /\ out' = <<MetaMsg>>
    /\ UNCHANGED <<call, retval, program, pc, directory, config, evaluated, quests,
                   current_quest_id, fs, said>>

\* one turn: a game command whose handler raises; the router logs the error,
\* apologises and reports the line as handled
TurnMetaRaises ==
    /\ program = "sequential"
    /\ pc = "prompt"
    /\ \E command \in Commands :
          /\ parse_and_handle(command)
          /\ turn' = TurnOf("meta", command, 0)
          /\ out' = <<MetaErrorMsg>>
    /\ UNCHANGED <<call, retval, program, pc, directory, config, evaluated, quests,
                   current_quest_id, fs, said>>

\* one turn: a bash command, one of commands, is executed, then checked
TurnBashOf(commands) ==
    /\ program = "sequential"
    /\ pc = "prompt"
    /\ \A i \in 1..Len(said) : \A j \in 1..Len(said[i]) : said[i][j] < MaxSaid
    /\ \E command \in commands :
          /\ ~parse_and_handle(command)
          /\ \E result \in execute_command(command, fs) :
                LET r == check(quests, current_quest_id, command,
                               result.return_code, result.fs)
                IN  /\ quests' = r.quests
                    /\ current_quest_id' = r.current
                    /\ out' = r.out
                    /\ said' = IF r.spoke = << >> THEN said
                               ELSE [said EXCEPT ![r.spoke[1]][r.spoke[2]] = @ + 1]
                    /\ fs' = result.fs
                    /\ turn' = TurnOf("bash", command, result.return_code)
                    /\ pc' = IF r.escapes THEN "crashed" ELSE pc
    /\ UNCHANGED <<call, retval, program, directory, config, evaluated>>

TurnBash == TurnBashOf(Commands)

\* a run of the sequential program on one quest whose objectives are
\* command_run and path_exists objectives of every spelling
InitPredicates ==
    /\ program = "sequential"
    /\ pc = "start"
    /\ directory \in PredicateDirectories
    /\ config = NoConfig
    /\ evaluated = << >>
    /\ quests = << >>
    /\ current_quest_id = None
    /\ fs = "absent"
    /\ turn = NoTurn
    /\ out = << >>
    /\ said = << >>
    /\ call = NoCall
    /\ retval = None

\* one turn: a command line over the token alphabet, or a command that
\* changes what is at ~/vault
TurnTokens == TurnBashOf(TokenCommands)

(***************************************************************************)
(* supershell/quest.py (the gated quest)                                   *)
(***************************************************************************)
\* _parse_checks raises ValueError on a function AUDIT_FUNCTIONS lacks
_parse_checks_raises(check_list) ==
    \E k \in 1..Len(check_list) : check_list[k].function \notin AUDIT_FUNCTIONS

\* Quest.__init__ raises ValueError
Quest_init_raises(quest_data) ==
    \/ _parse_checks_raises(quest_data.prerequisite_checks)
    \/ _parse_checks_raises(quest_data.completion_checks)

\* The loop of is_complete and of get_prerequisites_met over a list of
\* checks, when the k-th call of an audit function gives obs[k]: the
\* position where the loop stopped (0: it ran to the end), whether it
\* stopped on an exception, and the checks it called.
RunChecks(checks, obs) ==
    LET stops == {k \in 1..Len(checks) :
                     obs[k] = "raises" \/ obs[k] # checks[k].expected}
        stop == IF stops = {} THEN 0
                ELSE CHOOSE k \in stops : \A m \in stops : k <= m
    IN  [ok |-> stop = 0,
         raised |-> stop # 0 /\ obs[stop] = "raises",
         stop |-> stop,
         called |-> IF stop = 0 THEN Len(checks) ELSE stop]

\* Faulty variant of Quest_is_complete: every check is evaluated and the
\* feedback is that of the last check that differs.
Quest_is_complete_last(checks, obs) ==
    LET stops == {k \in 1..Len(checks) :
                     obs[k] = "raises" \/ obs[k] # checks[k].expected}
        stop == IF stops = {} THEN 0
                ELSE CHOOSE k \in stops : \A m \in stops : m <= k
    IN  [ok |-> stop = 0,
         raised |-> stop # 0 /\ obs[stop] = "raises",
         stop |-> stop,
         called |-> Len(checks)]

\* Quest.is_complete over self.completion_checks
Quest_is_complete(checks, obs) == RunChecks(checks, obs)

\* Faulty variant of get_prerequisites_met: the checks are evaluated and
\* what they give is not compared with what is expected.
get_prerequisites_met_unchecked(checks, obs) ==
    [ok |-> TRUE, raised |-> FALSE, stop |-> 0, called |-> Len(checks)]

\* Quest.get_prerequisites_met over self.prerequisite_checks
get_prerequisites_met(checks, obs) == RunChecks(checks, obs)

\* the calls of audit functions made during a step, with what they gave
EvaluatedLog(list, obs, n) ==
    [k \in 1..n |-> [list |-> list, index |-> k, observed |-> obs[k]]]

(***************************************************************************)
(* supershell/main.py and supershell/agent.py                              *)
(***************************************************************************)
GatedMsg(kind, k) == [kind |-> kind, quest |-> 0, objective |-> k]

\* quest_instances[quest.quest_id] = quest, for every quest of the file:
\* the data of the quest the dict holds under id i (the last one listed)
QuestInstance(qs, i) ==
    LET hits == {k \in 1..Len(qs) : qs[k].quest_id = i}
    IN  qs[CHOOSE k \in hits : \A m \in hits : m <= k]

\* AgentGuide.current_quest, once initialize_game has built the guide
current_quest == QuestInstance(config.quests, StartQuestId)

InitGated ==
    /\ program = "gated"
    /\ pc = "start"
    /\ directory = NoDirectory
    /\ config \in Configs
    /\ evaluated = << >>
    /\ quests = << >>
    /\ current_quest_id = None
    /\ fs = "absent"
    /\ turn = NoTurn
    /\ out = << >>
    /\ said = << >>
    /\ call = NoCall
    /\ retval = None

GatedFrame == UNCHANGED <<call, retval, program, directory, config, quests, current_quest_id,
                          fs, said>>

\* initialize_game and run_interaction_loop up to the first prompt
GatedStartup ==
    /\ program = "gated"
    /\ pc = "start"
    /\ turn' = NoTurn
    /\ IF ~config.readable
       THEN /\ pc' = "fatal"
            /\ out' = <<GatedMsg("fatal", 0)>>
            /\ evaluated' = << >>
       ELSE IF \E k \in 1..Len(config.quests) : Quest_init_raises(config.quests[k])
       THEN /\ pc' = "fatal"
            /\ out' = <<GatedMsg("fatal", 0)>>
            /\ evaluated' = << >>
       ELSE IF \A k \in 1..Len(config.quests) :
                   config.quests[k].quest_id # StartQuestId
       THEN \* KeyError in AgentGuide.__init__
            /\ pc' = "crashed"
            /\ out' = << >>
            /\ evaluated' = << >>
       ELSE LET checks == current_quest.prerequisite_checks
            IN  \E obs \in [1..Len(checks) -> Observed] :
                   LET r == get_prerequisites_met(checks, obs)
                   IN  /\ evaluated' = EvaluatedLog("prerequisite", obs, r.called)
                       /\ IF r.raised
                          THEN pc' = "crashed" /\ out' = << >>
                          ELSE IF ~r.ok
                          THEN /\ pc' = "startup_failed"
                               /\ out' = <<GatedMsg("startup_failed", r.stop)>>
                          ELSE /\ pc' = "prompt"
                               /\ out' = <<GatedMsg("new_mission", 0)>>
    /\ GatedFrame

\* one turn of the gated loop: an empty line
GatedTurnEmpty ==
    /\ program = "gated"
    /\ pc = "prompt"
    /\ \E input \in GatedInputs :
          /\ input = << >>
          /\ turn' = TurnOf("empty", input, 0)
    /\ out' = << >>
    /\ evaluated' = << >>
    /\ pc' = pc
    /\ GatedFrame

\* one turn of the gated loop: user_input.lower() == 'quit'
GatedTurnQuit ==
    /\ program = "gated"
    /\ pc = "prompt"
    /\ \E input \in GatedInputs :
          /\ Len(input) = 1 /\ Lower(input[1]) = "quit"
          /\ turn' = TurnOf("exit", input, 0)
    /\ out' = <<GatedMsg("aborted", 0)>>
    /\ evaluated' = << >>
    /\ pc' = "exited"
    /\ GatedFrame

\* one turn of the gated loop: subprocess.run raises, the turn ends there
GatedTurnExecError ==
    /\ program = "gated"
    /\ pc = "prompt"
    /\ \E input \in GatedInputs :
          /\ input # << >>
          /\ ~(Len(input) = 1 /\ Lower(input[1]) = "quit")
          /\ turn' = TurnOf("exec_error", input, 0)
    /\ out' = <<GatedMsg("exec_error", 0)>>
    /\ evaluated' = << >>
    /\ pc' = pc
    /\ GatedFrame

\* one turn of the gated loop: the command runs, then the quest is audited
GatedTurnCommand ==
    /\ program = "gated"
    /\ pc = "prompt"
    /\ \E input \in GatedInputs, rc \in {0, 1} :
          /\ input # << >>
          /\ ~(Len(input) = 1 /\ Lower(input[1]) = "quit")
          /\ turn' = TurnOf("bash", input, rc)
    /\ LET checks == current_quest.completion_checks
       IN  \E obs \in [1..Len(checks) -> Observed] :
              LET r == Quest_is_complete(checks, obs)
              IN  /\ evaluated' = EvaluatedLog("completion", obs, r.called)
                  /\ IF r.raised
                     THEN pc' = "crashed" /\ out' = << >>
                     ELSE IF r.ok
                     THEN /\ pc' = "finished"
                          /\ out' = <<GatedMsg("complete", 0)>>
                     ELSE /\ pc' = pc
                          /\ out' = <<GatedMsg("feedback", r.stop)>>
    /\ GatedFrame

(***************************************************************************)
(* The audit functions called on their own, on every answer of the system. *)
(***************************************************************************)
AuditorFrame == UNCHANGED <<program, directory, config, evaluated, quests,
                            current_quest_id, fs, turn, out, said, call>>

InitAuditors ==
    /\ program = "auditors"
    /\ pc = "call"
    /\ directory = NoDirectory
    /\ config = NoConfig
    /\ evaluated = << >>
    /\ quests = << >>
    /\ current_quest_id = None
    /\ fs = "absent"
    /\ turn = NoTurn
    /\ out = << >>
    /\ said = << >>
    /\ retval = None
    /\ \/ \E st \in {StatOf(m, 0) : m \in FileModes}
                       \cup {StatFails("FileNotFoundError"), StatFails("PermissionError")},
             e \in ExpectedOctals :
             call = [function |-> "check_permissions", stat |-> st, expected |-> e]
       \/ \E st \in {StatOf(32768, u) : u \in Uids}
                       \cup {StatFails("FileNotFoundError"), StatFails("PermissionError")},
             e \in Owners :
             call = [function |-> "check_owner_user", stat |-> st, expected |-> e]
       \/ \E t \in RoutingTables, a \in Addresses, i \in Interfaces :
             \E run \in {ToolRuns(t), ToolFails("CalledProcessError"),
                         ToolFails("FileNotFoundError")} :
                call = [function |-> "check_network_route", table |-> t, run |-> run,
                        target_ip |-> a, required_interface |-> i]

CallPermissions ==
    /\ program = "auditors" /\ pc = "call"
    /\ call.function = "check_permissions"
    /\ retval' = check_permissions(call.stat, call.expected)
    /\ pc' = "returned"
    /\ AuditorFrame

CallOwner ==
    /\ program = "auditors" /\ pc = "call"
    /\ call.function = "check_owner_user"
    /\ retval' = check_owner_user(call.stat, call.expected)
    /\ pc' = "returned"
    /\ AuditorFrame

CallRoute ==
    /\ program = "auditors" /\ pc = "call"
    /\ call.function = "check_network_route"
    /\ retval' = check_network_route(call.run, call.target_ip,
                                     call.required_interface)
    /\ pc' = "returned"
    /\ AuditorFrame

AuditorsNext ==
    \/ CallPermissions
    \/ CallOwner
    \/ CallRoute

AuditorsSpec == InitAuditors /\ [][AuditorsNext]_vars

Init == InitSequential \/ InitGated

Next ==
    \/ Startup
    \/ TurnEmpty
    \/ TurnExit
    \/ TurnMeta
    \/ TurnMetaRaises
    \/ TurnBash
    \/ GatedStartup
    \/ GatedTurnEmpty
    \/ GatedTurnQuit
    \/ GatedTurnExecError
    \/ GatedTurnCommand

Spec == Init /\ [][Next]_vars

\* the gated program alone
GatedNext ==
    \/ GatedStartup
    \/ GatedTurnEmpty
    \/ GatedTurnQuit
    \/ GatedTurnExecError
    \/ GatedTurnCommand

GatedSpec == InitGated /\ [][GatedNext]_vars

\* the predicates of the objectives, on every command line
PredicatesNext ==
    \/ Startup
    \/ TurnTokens

PredicatesSpec == InitPredicates /\ [][PredicatesNext]_vars

\* the sequential program alone, on the well-formed catalogs
SequentialNext ==
    \/ Startup
    \/ TurnEmpty
    \/ TurnExit
    \/ TurnMeta
    \/ TurnMetaRaises
    \/ TurnBash

WellFormedSpec == InitWellFormed /\ [][SequentialNext]_vars


(***************************************************************************)
(* The user who only ever types a successful command that satisfies the    *)
(* active objective.                                                       *)
(***************************************************************************)
SatisfyingTurn ==
    /\ TurnBash
    /\ turn'.return_code = 0
    /\ \E k \in 1..Len(out') : out'[k].kind = "success"

LiveNext ==
    \/ Startup
    \/ SatisfyingTurn

LiveSpec == InitSequential /\ [][LiveNext]_vars /\ WF_vars(LiveNext)

(***************************************************************************)
(* Vocabulary of the properties.                                           *)
(***************************************************************************)
Sequential == program = "sequential"
Loaded == Sequential /\ pc # "start"

AllObjectivesCompleted(q) ==
    \A j \in 1..Len(q.objectives) : q.objectives[j].completed

ActiveQuest == get_current_quest(quests, current_quest_id)
ActiveObjective == get_active_objective(quests, current_quest_id)

\* the states of the quest state machine
NoQuestsLoaded == Sequential /\ quests = << >> /\ current_quest_id = None
AllQuestsComplete == Loaded /\ quests # << >> /\ current_quest_id = None

\* this step is an observe call (objective_checker.check)
Observes == Sequential /\ pc = "prompt" /\ turn'.kind = "bash"

Count(msgs, kind) == Cardinality({k \in 1..Len(msgs) : msgs[k].kind = kind})

(***************************************************************************)
(* C1.  A quest's completed flag is true if and only if every objective of *)
(* the quest is completed, in every state after load, also for a quest     *)
(* whose objective list is empty.                                          *)
(***************************************************************************)
C1_QuestCompletedIffAllObjectives ==
    Loaded =>
        \A i \in 1..Len(quests) :
            quests[i].completed <=> AllObjectivesCompleted(quests[i])

(***************************************************************************)
(* C2.  Whenever observe can be invoked while a quest is active, that      *)
(* quest has at least one uncompleted objective.                           *)
(***************************************************************************)
C2_ActiveQuestHasOpenObjective ==
    (Sequential /\ pc = "prompt" /\ ActiveQuest # 0) => ActiveObjective # 0

(***************************************************************************)
(* C3.  No step (load, observe, meta-command, empty line, exit) turns an   *)
(* objective's completed flag from true to false.                          *)
(***************************************************************************)
C3_CompletedIsMonotonic ==
    [][\A i \in 1..Len(quests) : \A j \in 1..Len(quests[i].objectives) :
          quests[i].objectives[j].completed =>
              /\ i <= Len(quests')
              /\ j <= Len(quests'[i].objectives)
              /\ quests'[i].objectives[j].completed]_vars

\* an observe call that completed nothing ran while an objective was completed
C3_Witness ==
    /\ Sequential /\ turn.kind = "bash" /\ turn.return_code = 0 /\ out = << >>
    /\ \E i \in 1..Len(quests) : \E j \in 1..Len(quests[i].objectives) :
          quests[i].objectives[j].completed

(***************************************************************************)
(* C4.  Each objective's success message is emitted at most once over the  *)
(* whole run.                                                              *)
(***************************************************************************)
C4_SuccessMessageAtMostOnce ==
    \A i \in 1..Len(said) : \A j \in 1..Len(said[i]) : said[i][j] <= 1

(***************************************************************************)
(* C5.  In every quest the completed objectives form a prefix of the       *)
(* objective list, and the active objective is the earliest uncompleted    *)
(* objective of the active quest.                                          *)
(***************************************************************************)
C5_CompletedObjectivesFormPrefix ==
    /\ \A i \in 1..Len(quests) : \A j \in 1..Len(quests[i].objectives) :
          quests[i].objectives[j].completed =>
              \A k \in 1..(j - 1) : quests[i].objectives[k].completed
    /\ ActiveQuest # 0 =>
          LET os == quests[ActiveQuest].objectives
          IN  IF ActiveObjective = 0
              THEN \A k \in 1..Len(os) : os[k].completed
              ELSE /\ ~os[ActiveObjective].completed
                   /\ \A k \in 1..(ActiveObjective - 1) : os[k].completed

\* the first of two objectives is completed and the second is now active
C5_Witness ==
    /\ ActiveQuest # 0
    /\ Len(quests[ActiveQuest].objectives) = 2
    /\ quests[ActiveQuest].objectives[1].completed
    /\ ActiveObjective = 2

(***************************************************************************)
(* C6.  An observe call whose command has a non-zero exit status changes   *)
(* no completed flag and not the active quest id, and emits no message.    *)
(***************************************************************************)
C6_FailedCommandChangesNothing ==
    [][(Observes /\ turn'.return_code # 0) =>
          /\ quests' = quests
          /\ current_quest_id' = current_quest_id
          /\ out' = << >>]_vars

\* a failed command was observed whose success would have satisfied the
\* active path_exists objective
C6_Witness ==
    /\ Sequential /\ turn.kind = "bash" /\ turn.return_code # 0
    /\ ActiveObjective # 0
    /\ LET obj == quests[ActiveQuest].objectives[ActiveObjective]
       IN  /\ obj.type = "path_exists"
           /\ is_complete(obj, turn.input, fs)

(***************************************************************************)
(* C7.  When an observe call completes the last uncompleted objective of   *)
(* the active quest and that quest is not the last of the catalog, the     *)
(* same call marks the quest completed, makes the next catalog entry the   *)
(* active quest and emits exactly one quest-transition message.            *)
(***************************************************************************)
\* this step completes the only uncompleted objective of the active quest
CompletesActiveQuest ==
    /\ Observes
    /\ ActiveQuest # 0 /\ ActiveObjective # 0
    /\ \A k \in 1..Len(quests[ActiveQuest].objectives) :
          k # ActiveObjective => quests[ActiveQuest].objectives[k].completed
    /\ quests'[ActiveQuest].objectives[ActiveObjective].completed

C7_AdvancesToNextQuest ==
    [][(CompletesActiveQuest /\ ActiveQuest < Len(quests)) =>
          /\ quests'[ActiveQuest].completed
          /\ current_quest_id' = quests[ActiveQuest + 1].id
          /\ Count(out', "transition") = 1]_vars

(***************************************************************************)
(* C8.  Completing the last objective of the last quest makes the active   *)
(* quest id none, and from then on every observe call changes no flag,     *)
(* keeps the active quest id none and emits no message.                    *)
(***************************************************************************)
C8_AllQuestsCompleteIsAbsorbing ==
    [][/\ (CompletesActiveQuest /\ ActiveQuest = Len(quests)) =>
              (current_quest_id' = None /\ AllQuestsComplete')
       /\ AllQuestsComplete =>
              /\ quests' = quests
              /\ current_quest_id' = None
              /\ Observes => out' = << >>]_vars

\* after the last quest was completed, a successful "ls" was observed
C8_Witness ==
    /\ AllQuestsComplete
    /\ quests[Len(quests)].completed
    /\ turn.kind = "bash" /\ turn.return_code = 0 /\ Lower(turn.input[1]) = "ls"
    /\ out = << >>

(***************************************************************************)
(* C9.  Once a catalog is loaded, the user who keeps issuing successful    *)
(* commands that satisfy the active objective eventually reaches           *)
(* AllQuestsComplete with every quest and every objective completed.       *)
(***************************************************************************)
EverythingCompleted ==
    /\ AllQuestsComplete
    /\ \A i \in 1..Len(quests) :
          quests[i].completed /\ AllObjectivesCompleted(quests[i])

C9_EventuallyAllQuestsComplete ==
    (Loaded /\ quests # << >>) ~> EverythingCompleted

(***************************************************************************)
(* C10.  A catalog in which a quest has an objective (sequential loader)   *)
(* or a check (gated loader) of unknown kind aborts startup: no quest      *)
(* becomes active, no prompt is shown and nothing is evaluated.            *)
(***************************************************************************)
KnownObjectiveTypes == {"command_run", "path_exists"}

DirectoryHasUnknownKind ==
    \E k \in 1..Len(directory.files) :
        \E j \in 1..Len(directory.files[k].objectives) :
            directory.files[k].objectives[j].type \notin KnownObjectiveTypes

ConfigHasUnknownKind ==
    \E k \in 1..Len(config.quests) : Quest_init_raises(config.quests[k])

C10_UnknownKindIsFatal ==
    /\ (Loaded /\ DirectoryHasUnknownKind) =>
          (pc # "prompt" /\ NoQuestsLoaded)
    /\ (program = "gated" /\ pc # "start" /\ ConfigHasUnknownKind) =>
          (pc = "fatal" /\ evaluated = << >>)

(***************************************************************************)
(* C11.  Loading an empty catalog (no quest directory, no quest file, or   *)
(* no file that parses) leaves the state machine in NoQuestsLoaded and is  *)
(* fatal for the caller: the game loop does not start reading and          *)
(* executing commands.                                                     *)
(***************************************************************************)
C11_EmptyCatalogIsFatal ==
    (Loaded /\ quests = << >>) =>
        /\ NoQuestsLoaded
        /\ pc # "prompt"
        /\ turn.kind = "none"

(***************************************************************************)
(* C12.  After the load of a non-empty catalog the active quest is the     *)
(* first quest of the catalog, and every quest and every objective has     *)
(* completed = false.                                                      *)
(***************************************************************************)
\* the state main_loop is in when load_quests has returned and no line has
\* been read yet
JustLoaded == Loaded /\ turn.kind = "none"

C12_FirstQuestActiveAfterLoad ==
    (JustLoaded /\ quests # << >>) =>
        /\ current_quest_id = quests[1].id
        /\ ActiveQuest = 1
        /\ \A i \in 1..Len(quests) :
              /\ ~quests[i].completed
              /\ \A j \in 1..Len(quests[i].objectives) :
                    ~quests[i].objectives[j].completed

(***************************************************************************)
(* C13.  A quest file that fails to parse is skipped without affecting the *)
(* others: after load the catalog holds exactly the quests of the files    *)
(* that parsed, in sorted file order, and the first of them is active.     *)
(***************************************************************************)
\* the files of the directory that parse, in sorted order
RECURSIVE ParsedFiles(_)
ParsedFiles(files) ==
    IF files = << >> THEN << >>
    ELSE IF files[1].parses
         THEN <<Quest_from_dict(files[1])>> \o ParsedFiles(Tail(files))
         ELSE ParsedFiles(Tail(files))

C13_BadFilesAreSkipped ==
    JustLoaded =>
        /\ quests = ParsedFiles(directory.files)
        /\ quests # << >> => ActiveQuest = 1

(***************************************************************************)
(* C14.  In the sequential path an exception raised while evaluating the   *)
(* active objective's predicate never propagates out of observe: that      *)
(* observe call leaves every completed flag and the active quest id        *)
(* unchanged and emits no message, and the loop goes on.                   *)
(***************************************************************************)
\* this step is an observe call that evaluates a predicate which raises
ObservesRaisingPredicate ==
    /\ Observes
    /\ turn'.return_code = 0
    /\ ActiveObjective # 0
    /\ _check_raises(quests[ActiveQuest].objectives[ActiveObjective])

C14_PredicateExceptionIsContained ==
    [][ObservesRaisingPredicate =>
          /\ pc' = "prompt"
          /\ quests' = quests
          /\ current_quest_id' = current_quest_id
          /\ out' = << >>]_vars

\* the first objective was completed, then a successful command was observed
\* while the second objective, whose predicate raises, was active
C14_Witness ==
    /\ Sequential /\ pc = "prompt"
    /\ turn.kind = "bash" /\ turn.return_code = 0
    /\ ActiveObjective = 2
    /\ quests[ActiveQuest].objectives[1].completed
    /\ _check_raises(quests[ActiveQuest].objectives[2])

(***************************************************************************)
(* C15.  In the gated path an exception raised by the predicate of a       *)
(* completion check is contained: the check counts as not satisfied for    *)
(* the cycle (its feedback is shown) and the interaction loop goes on.     *)
(***************************************************************************)
Gated == program = "gated"

\* this step is a turn of the gated loop whose command ran and was followed
\* by the audit of the quest (is_complete)
Audits == Gated /\ pc = "prompt" /\ turn'.kind = "bash"

C15_CheckExceptionIsContained ==
    [][(Audits /\ \E k \in 1..Len(evaluated') : evaluated'[k].observed = "raises") =>
          /\ pc' = "prompt"
          /\ Count(out', "feedback") = 1]_vars

(***************************************************************************)
(* C16.  is_complete of a gated quest returns (true, completion message)   *)
(* if and only if every completion check's observed value equals its       *)
(* expected value; otherwise it returns false with the failure message of  *)
(* the first check, in declared order, whose observed value differs, and   *)
(* no check after that one is evaluated.  The call changes no quest state. *)
(***************************************************************************)
\* the k-th check of the log gave the value the quest expects of it
Matches(log, checks, k) == log[k].observed = checks[k].expected

Returned(log) == \A k \in 1..Len(log) : log[k].observed # "raises"

C16_IsCompleteStopsAtFirstFailure ==
    [][(Audits /\ Returned(evaluated')) =>
          LET checks == current_quest.completion_checks
              n == Len(evaluated')
              all == /\ n = Len(checks)
                     /\ \A k \in 1..n : Matches(evaluated', checks, k)
          IN  /\ n <= Len(checks)
              /\ \A k \in 1..n : evaluated'[k].list = "completion"
              /\ (pc' = "finished" /\ out' = <<GatedMsg("complete", 0)>>) <=> all
              /\ ~all =>
                    /\ n >= 1
                    /\ \A k \in 1..(n - 1) : Matches(evaluated', checks, k)
                    /\ ~Matches(evaluated', checks, n)
                    /\ out' = <<GatedMsg("feedback", n)>>
                    /\ pc' = "prompt"
              /\ config' = config]_vars

\* a quest of two completion checks was audited: the first check held, the
\* second did not, and the feedback is that of the second
C16_Witness ==
    /\ Gated /\ turn.kind = "bash"
    /\ Len(current_quest.completion_checks) = 2
    /\ Len(evaluated) = 2
    /\ Matches(evaluated, current_quest.completion_checks, 1)
    /\ evaluated[2].observed # "raises"
    /\ out = <<GatedMsg("feedback", 2)>>

(***************************************************************************)
(* C17.  A gated quest starts only if all its prerequisite checks hold:    *)
(* when a prerequisite check's observed value differs from the expected    *)
(* one at startup, the interaction loop is never entered, no user command  *)
(* is executed and no completion check is evaluated.                       *)
(***************************************************************************)
\* this step is the startup of the gated program, and a prerequisite check
\* it evaluated gave another value than the one expected
PrerequisiteFails ==
    /\ Gated /\ pc = "start"
    /\ \E k \in 1..Len(evaluated') :
          /\ evaluated'[k].list = "prerequisite"
          /\ evaluated'[k].observed # "raises"
          /\ ~Matches(evaluated', current_quest.prerequisite_checks, k)

C17_StartsOnlyIfPrerequisitesHold ==
    [][/\ PrerequisiteFails =>
              /\ pc' = "startup_failed"
              /\ turn'.kind = "none"
              /\ \A k \in 1..Len(evaluated') : evaluated'[k].list # "completion"
       /\ pc = "startup_failed" => UNCHANGED vars]_vars

\* startup ended on a failed prerequisite of a quest that has completion
\* checks
C17_Witness ==
    /\ Gated /\ pc = "startup_failed"
    /\ Len(evaluated) = 1
    /\ ~Matches(evaluated, current_quest.prerequisite_checks, 1)
    /\ current_quest.completion_checks # << >>

(***************************************************************************)
(* C18.  check_permissions on an existing path returns true if and only if *)
(* expected_octal is the 3-digit, zero-padded octal rendering of the       *)
(* path's user/group/other permission bits, for every mode 000..777 and    *)
(* with the setuid/setgid/sticky bits ignored; on a missing path it        *)
(* returns false.                                                          *)
(***************************************************************************)
\* the three octal digits of the user/group/other bits of a mode
ThreeDigits(mode) ==
    <<Digit((mode \div 64) % 8), Digit((mode \div 8) % 8), Digit(mode % 8)>>

Called(function) ==
    program = "auditors" /\ pc = "returned" /\ call.function = function

C18_PermissionCheckComparesThreeDigits ==
    Called("check_permissions") =>
        IF call.stat.error = None
        THEN retval = "True" <=> call.expected = ThreeDigits(call.stat.st_mode)
        ELSE retval = "False"

(***************************************************************************)
(* C19.  check_network_route(target, interface) returns true if and only   *)
(* if the routing table has an entry that is both to target and via        *)
(* interface (the same entry), for every routing table of several entries. *)
(***************************************************************************)
C19_RouteCheckMatchesOneEntry ==
    (Called("check_network_route") /\ call.run.error = None) =>
        (retval = "True" <=>
            \E k \in 1..Len(call.table) :
                /\ call.table[k].to = call.target_ip
                /\ call.table[k].dev = call.required_interface)

(***************************************************************************)
(* C20.  Every audit function returns false instead of raising when what   *)
(* it relies on fails: os.stat on a missing or unreadable path, the        *)
(* account lookup, the route query (non-zero exit or the tool absent).     *)
(***************************************************************************)
UnderlyingFailure ==
    \/ /\ call.function \in {"check_permissions", "check_owner_user"}
       /\ call.stat.error # None
    \/ /\ call.function = "check_owner_user"
       /\ call.stat.error = None
       /\ getpwuid(call.stat.st_uid) = "KeyError"
    \/ /\ call.function = "check_network_route"
       /\ call.run.error # None

C20_AuditFunctionsNeverRaise ==
    (program = "auditors" /\ pc = "returned" /\ UnderlyingFailure) =>
        retval = "False"

(***************************************************************************)
(* C21.  A path_exists objective whose expected kind is "directory" is     *)
(* completed by an observe call with exit status 0 if and only if the      *)
(* home-expanded path is a directory at the time of the check; likewise    *)
(* "file" for a regular file.                                              *)
(***************************************************************************)
\* this step is an observe call with exit status 0 while a path_exists
\* objective is active whose criteria spell the kind of path as `kind`
ObservesPathObjective(kind) ==
    /\ Observes
    /\ turn'.return_code = 0
    /\ ActiveObjective # 0
    /\ quests[ActiveQuest].objectives[ActiveObjective].type = "path_exists"
    /\ quests[ActiveQuest].objectives[ActiveObjective].criteria.path = VaultPath
    /\ quests[ActiveQuest].objectives[ActiveObjective].criteria.type = kind

\* the objective that was active is completed after the step
ActiveObjectiveCompleted ==
    quests'[ActiveQuest].objectives[ActiveObjective].completed

ObservesVerbObjective(v) ==
    /\ Observes
    /\ turn'.return_code = 0
    /\ ActiveObjective # 0
    /\ quests[ActiveQuest].objectives[ActiveObjective].type = "command_run"
    /\ quests[ActiveQuest].objectives[ActiveObjective].criteria.command = v

C22_VerbMatchesFirstTokenLowered ==
    [][/\ \A v \in {"ls", "LS", "cat"} :
              ObservesVerbObjective(v) =>
                  (ActiveObjectiveCompleted <=> Lower(turn'.input[1]) = v)
       /\ ObservesVerbObjective("ls") =>
              /\ turn'.input \in {<<"ls">>, <<"ls", "-la">>, <<"LS", "-la">>}
                     => ActiveObjectiveCompleted
              /\ turn'.input = <<"cat", "ls">> => ~ActiveObjectiveCompleted]_vars

\* "LS -la" was observed and completed an objective whose verb is "ls"
C22_Witness ==
    /\ Sequential /\ turn.kind = "bash" /\ turn.return_code = 0
    /\ turn.input = <<"LS", "-la">>
    /\ Len(quests) = 1 /\ Len(quests[1].objectives) = 2
    /\ quests[1].objectives[1].criteria.command = "ls"
    /\ quests[1].objectives[1].completed
    /\ ~quests[1].objectives[2].completed
    /\ Count(out, "success") = 1

(***************************************************************************)
(* C23.  An observe call with exit status 0 whose command does not satisfy *)
(* the active objective changes nothing: every completed flag and the      *)
(* active quest id are unchanged and no success or transition message is   *)
(* emitted, even when the command would satisfy a later objective of the   *)
(* same quest or an objective of a later quest.                            *)
(***************************************************************************)
\* the predicate of obj holds of the command and of the filesystem
Satisfies(obj, command, fsNow) ==
    ~_check_raises(obj) /\ is_complete(obj, command, fsNow)

C23_UnsatisfiedObserveChangesNothing ==
    [][(/\ Observes
        /\ turn'.return_code = 0
        /\ ActiveObjective # 0
        /\ ~Satisfies(quests[ActiveQuest].objectives[ActiveObjective],
                      turn'.input, fs')) =>
          /\ quests' = quests
          /\ current_quest_id' = current_quest_id
          /\ Count(out', "success") = 0
          /\ Count(out', "transition") = 0]_vars

\* a successful command was observed that satisfies the second objective of
\* the active quest and not the first, which is the active one
C23_Witness ==
    /\ Sequential /\ turn.kind = "bash" /\ turn.return_code = 0
    /\ out = << >>
    /\ ActiveObjective = 1
    /\ Len(quests[ActiveQuest].objectives) = 2
    /\ ~Satisfies(quests[ActiveQuest].objectives[1], turn.input, fs)
    /\ Satisfies(quests[ActiveQuest].objectives[2], turn.input, fs)
    /\ ~quests[ActiveQuest].objectives[2].completed

(***************************************************************************)
(* C24.  The state "no quest was loaded" and the state "all quests are     *)
(* finished" are distinguishable by the caller, although both present as   *)
(* no active quest: what the quest manager answers in AllQuestsComplete    *)
(* differs from what it answers when the catalog is empty.                 *)
(***************************************************************************)
C24_FinishedDiffersFromNotLoaded ==
    AllQuestsComplete =>
        CallerView(quests, current_quest_id) # CallerView(<< >>, None)

(***************************************************************************)
(* C25.  When observe finds the active objective satisfied, the objective  *)
(* whose completed flag becomes true is the active objective itself (the   *)
(* earliest uncompleted one), for every loadable quest, including a quest  *)
(* in which two objectives carry the same id.                              *)
(***************************************************************************)
C25_SatisfiedActiveObjectiveIsMarked ==
    [][(/\ Observes
        /\ turn'.return_code = 0
        /\ ActiveObjective # 0
        /\ Satisfies(quests[ActiveQuest].objectives[ActiveObjective],
                     turn'.input, fs')) =>
          /\ ActiveObjectiveCompleted
          /\ \A j \in 1..Len(quests[ActiveQuest].objectives) :
                j # ActiveObjective =>
                    quests'[ActiveQuest].objectives[j].completed
                        = quests[ActiveQuest].objectives[j].completed]_vars

(***************************************************************************)
(* C26.  Each observe call evaluates only the single active objective: it  *)
(* turns at most one objective's completed flag to true, marks at most one *)
(* quest completed and moves the active quest forward by at most one       *)
(* catalog position; the first objective of a newly activated quest is not *)
(* evaluated against the command that caused the advancement, even if it   *)
(* is already satisfied.                                                   *)
(***************************************************************************)
\* the objectives, and the quests, this step completes
ObjectivesCompletedByStep ==
    {p \in {<<i, j>> : i \in 1..Len(quests), j \in 1..MaxObjectives} :
        /\ p[2] <= Len(quests[p[1]].objectives)
        /\ ~quests[p[1]].objectives[p[2]].completed
        /\ quests'[p[1]].objectives[p[2]].completed}

QuestsCompletedByStep ==
    {i \in 1..Len(quests) : ~quests[i].completed /\ quests'[i].completed}

C26_ObserveEvaluatesOneObjective ==
    [][Observes =>
          /\ Len(quests') = Len(quests)
          /\ Cardinality(ObjectivesCompletedByStep) <= 1
          /\ Cardinality(QuestsCompletedByStep) <= 1
          /\ Count(out', "success") <= 1
          /\ \/ current_quest_id' = current_quest_id
             \/ /\ ActiveQuest # 0
                /\ ObjectivesCompletedByStep = {<<ActiveQuest, ActiveObjective>>}
                /\ IF ActiveQuest < Len(quests)
                   THEN /\ current_quest_id' = quests[ActiveQuest + 1].id
                        /\ \A j \in 1..Len(quests[ActiveQuest + 1].objectives) :
                              ~quests'[ActiveQuest + 1].objectives[j].completed
                   ELSE current_quest_id' = None]_vars

\* the command that completed the first quest also satisfies the first
\* objective of the second quest, which is now active and not completed
C26_Witness ==
    /\ Sequential /\ turn.kind = "bash" /\ turn.return_code = 0
    /\ Count(out, "transition") = 1
    /\ ActiveQuest = 2 /\ ActiveObjective = 1
    /\ quests[1].completed
    /\ Satisfies(quests[2].objectives[1], turn.input, fs)

(***************************************************************************)
(* C27.  A turn whose input's first word, case-insensitively, is a game    *)
(* meta-command (help, quest, log, cypher, scan) is handled by the router  *)
(* and never reaches the shell executor or observe: every completed flag   *)
(* and the active quest id are unchanged by that turn, also when the       *)
(* handler of the meta-command raises.                                     *)
(***************************************************************************)
\* this step is a turn that read a line whose first word is a game command
ReadsMetaCommand ==
    /\ Sequential /\ pc = "prompt"
    /\ turn'.input # << >>
    /\ \E t \in {"help", "quest", "log", "cypher", "scan",
                 "HELP", "QUEST", "LOG", "CYPHER", "SCAN"} : turn'.input[1] = t

C27_MetaCommandsBypassObserve ==
    [][ReadsMetaCommand =>
          /\ turn'.kind = "meta"
          /\ quests' = quests
          /\ current_quest_id' = current_quest_id
          /\ fs' = fs
          /\ Count(out', "success") = 0
          /\ pc' = "prompt"]_vars

\* "HELP" was typed while an objective was active, and its handler raised
C27_Witness ==
    /\ Sequential /\ pc = "prompt"
    /\ turn.kind = "meta" /\ turn.input = <<"HELP">>
    /\ out = <<MetaErrorMsg>>
    /\ ActiveObjective # 0

(***************************************************************************)
(* C28.  In the gated interaction loop every non-empty, non-quit input is  *)
(* executed exactly once and followed by exactly one evaluation of the     *)
(* completion checks, whatever the exit status; the loop ends exactly when *)
(* that evaluation reports complete (or on quit); the completion checks    *)
(* are never evaluated before the first command.                           *)
(***************************************************************************)
\* this step is a turn of the gated loop that read a command
ReadsGatedCommand ==
    /\ Gated /\ pc = "prompt"
    /\ turn'.input # << >>
    /\ ~(Len(turn'.input) = 1 /\ Lower(turn'.input[1]) = "quit")

C28_EveryCommandIsAuditedOnce ==
    [][/\ ReadsGatedCommand =>
              /\ turn'.kind = "bash"
              /\ Count(out', "complete") + Count(out', "feedback") = 1
              /\ \A k \in 1..Len(evaluated') : evaluated'[k].list = "completion"
              /\ pc' = IF Count(out', "complete") = 1 THEN "finished" ELSE "prompt"
       /\ (Gated /\ pc = "prompt" /\ ~ReadsGatedCommand) =>
              /\ evaluated' = << >>
              /\ pc' = IF turn'.kind = "exit" THEN "exited" ELSE "prompt"
       /\ (Gated /\ pc = "start") =>
              \A k \in 1..Len(evaluated') : evaluated'[k].list # "completion"
       /\ Gated => config' = config]_vars

(***************************************************************************)
(* C29.  In every reachable state of the sequential quest manager the      *)
(* active quest id is either none or a key of the catalog; every quest     *)
(* before the active quest in catalog order is completed, and every quest  *)
(* after it is not completed and has no completed objective.               *)
(***************************************************************************)
\* the position of the active quest id in the catalog; past the end when
\* the id is none
ActivePosition ==
    IF current_quest_id = None THEN Len(quests) + 1
    ELSE KeyIndex(quests, current_quest_id)

C29_CatalogOrderInvariant ==
    Sequential =>
        /\ current_quest_id # None =>
              \E i \in 1..Len(quests) : quests[i].id = current_quest_id
        /\ \A i \in 1..Len(quests) :
              /\ i < ActivePosition => quests[i].completed
              /\ i > ActivePosition =>
                    /\ ~quests[i].completed
                    /\ \A j \in 1..Len(quests[i].objectives) :
                          ~quests[i].objectives[j].completed

\* the second of two quests is active and one of its two objectives is
\* completed
C29_Witness ==
    /\ Sequential /\ Len(quests) = 2
    /\ ActivePosition = 2
    /\ quests[1].completed
    /\ Len(quests[2].objectives) = 2
    /\ quests[2].objectives[1].completed
    /\ ~quests[2].objectives[2].completed

=============================================================================
